---------------------------- MODULE Spec2Model ----------------------------
(***************************************************************************)
(* Model of backend/python-scripts/report_generation.py: the scalar        *)
(* parsers, the invoice normalizer, the tax classifier, the period         *)
(* aggregator and the filing assistant.                                    *)
(*                                                                         *)
(* Conventions.                                                            *)
(*  - Python's None is the empty tuple <<>>, a present value v is <<v>>.   *)
(*  - Text is a tuple of one-character strings.                            *)
(*  - Money is an integer number of mills (1/1000 of a rupee), so that     *)
(*    round(x, 2) is a real conversion; quantities are in thousandths and  *)
(*    tax rates are integer percents.                                      *)
(*  - The sums of the rate breakdown, which the program never rounds, are  *)
(*    Python floats: significand and exponent, added as binary64 adds.     *)
(*  - Each function of the program is an operator; each specification      *)
(*    draws the function's arguments in its Init and applies it.           *)
(***************************************************************************)
EXTENDS Integers, Sequences, FiniteSets, TLC

VARIABLES
    pc,              \* position of the driver of the current specification
    extracted,       \* argument of normalize_invoice
    normalized,      \* its result
    inv,             \* argument of classify_inter_state / compute_invoice_tax_breakup
    classification,  \* result of classify_inter_state
    inv1,            \* compute_invoice_tax_breakup(inv)
    inv2,            \* compute_invoice_tax_breakup(inv1)
    norm_invoices,   \* argument of aggregate_invoices_for_period / filing_assistant
    permuted,        \* the same invoices in another order
    agg,             \* aggregate_invoices_for_period(norm_invoices)
    agg_perm,        \* aggregate_invoices_for_period(permuted)
    fa_args,         \* the other arguments of filing_assistant
    assistant        \* result of filing_assistant

vars == <<pc, extracted, normalized, inv, classification, inv1, inv2,
          norm_invoices, permuted, agg, agg_perm, fa_args, assistant>>

-----------------------------------------------------------------------------
(* Bounds of the model *)

MaxGstinLen == 3
MaxPosLen == 4

-----------------------------------------------------------------------------
(* Values *)

None == <<>>
Some(v) == <<v>>
Idle == <<>>

\* All texts over the characters S of length at most n.
TextsUpTo(S, n) == UNION {[1..k -> S] : k \in 0..n}

Digit == {"0", "1", "2", "3", "4", "5", "6", "7", "8", "9"}
Whitespace == {" "}

\* Python truthiness of an optional text: None and '' are falsy.
TruthyText(t) == t # None /\ t[1] # <<>>

-----------------------------------------------------------------------------
(* Scalar parsers *)

\* str.strip(): leading and trailing whitespace removed.
RECURSIVE LStrip(_)
LStrip(s) == IF s # <<>> /\ Head(s) \in Whitespace THEN LStrip(Tail(s)) ELSE s

RECURSIVE RStrip(_)
RStrip(s) ==
    IF s # <<>> /\ s[Len(s)] \in Whitespace
    THEN RStrip(SubSeq(s, 1, Len(s) - 1)) ELSE s

Strip(s) == LStrip(RStrip(s))

\* re.search(r'(\d{2})', s): the positions where two digits start.
DigitPairs(s) == {i \in 1..(Len(s) - 1) : s[i] \in Digit /\ s[i + 1] \in Digit}

Min(S) == CHOOSE x \in S : \A y \in S : x <= y

gst_state_code_from_gstin_strict(gstin) ==
    IF ~TruthyText(gstin) THEN None
    ELSE LET g == Strip(gstin[1]) IN
         IF Len(g) >= 2 /\ g[1] \in Digit /\ g[2] \in Digit
         THEN Some(SubSeq(g, 1, 2))
         ELSE None

gst_state_code_from_gstin(gstin) ==
    IF ~TruthyText(gstin) THEN None
    ELSE LET g == Strip(gstin[1]) IN
         IF Len(g) >= 2 /\ g[1] \in Digit /\ g[2] \in Digit
         THEN Some(SubSeq(g, 1, 2))
         ELSE IF DigitPairs(g) # {}
              THEN LET i == Min(DigitPairs(g)) IN Some(SubSeq(g, i, i + 1))
              ELSE None

-----------------------------------------------------------------------------
(* Tax classifier *)

\* re.search(r'\((\d{1,2})\)', pos): the positions of a '(' that opens a
\* parenthesised group of one or two digits.
ParenOne(s, i) ==
    /\ i + 2 <= Len(s)
    /\ s[i] = "(" /\ s[i + 1] \in Digit /\ s[i + 2] = ")"
ParenTwo(s, i) ==
    /\ i + 3 <= Len(s)
    /\ s[i] = "(" /\ s[i + 1] \in Digit /\ s[i + 2] \in Digit /\ s[i + 3] = ")"
ParenCodes(s) == {i \in 1..Len(s) : ParenOne(s, i) \/ ParenTwo(s, i)}

\* m.group(1) of the leftmost match.
ParenGroup(s) ==
    LET i == Min(ParenCodes(s)) IN
    IF ParenTwo(s, i) THEN SubSeq(s, i + 1, i + 2) ELSE SubSeq(s, i + 1, i + 1)

\* str.zfill(2) of a text of digits.
ZFill2(s) == IF Len(s) < 2 THEN <<"0">> \o s ELSE s

Vs == <<" ", "v", "s", " ">>
Unknown == <<"u", "n", "k", "n", "o", "w", "n">>

\* The pair the function returns: inter is None, Some(TRUE) or Some(FALSE).
Verdict(inter, reason) == [inter |-> inter, reason |-> reason]

classify_inter_state(invoice) ==
    LET sup_code == gst_state_code_from_gstin(invoice.supplier_gstin)
        cus_code == gst_state_code_from_gstin(invoice.customer_gstin)
        pos == invoice.place_of_supply
    IN  IF sup_code # None /\ cus_code # None
        THEN Verdict(Some(sup_code[1] # cus_code[1]), sup_code[1] \o Vs \o cus_code[1])
        ELSE IF TruthyText(pos) /\ ParenCodes(pos[1]) # {} /\ sup_code # None
             THEN LET pcode == ZFill2(ParenGroup(pos[1])) IN
                  Verdict(Some(sup_code[1] # pcode), sup_code[1] \o Vs \o pcode)
             ELSE Verdict(None, Unknown)

-----------------------------------------------------------------------------
(* Specification: classification of one invoice's identity fields *)

GstinChars == {"0", "7", "A", " "}
PosChars == {"(", ")", "7"}

OptTexts(S, n) == {None} \cup {Some(t) : t \in TextsUpTo(S, n)}

FewGstins == {None, Some(<<"7", "7", "A">>), Some(<<"A">>)}
FewPlaces == {None, Some(<<"(", "7", ")">>), Some(<<"(", "0", "0", ")">>)}

Parties(s, c, p) == [supplier_gstin |-> s, customer_gstin |-> c, place_of_supply |-> p]

InitClassify ==
    /\ pc = "classify"
    /\ \/ \E s \in OptTexts(GstinChars, MaxGstinLen),
             c \in OptTexts(GstinChars, MaxGstinLen),
             p \in FewPlaces : inv = Parties(s, c, p)
       \/ \E s \in OptTexts(GstinChars, MaxGstinLen),
             c \in FewGstins,
             p \in OptTexts(PosChars, MaxPosLen) : inv = Parties(s, c, p)
    /\ classification = Idle
    /\ extracted = Idle /\ normalized = Idle
    /\ inv1 = Idle /\ inv2 = Idle
    /\ norm_invoices = Idle /\ permuted = Idle
    /\ agg = Idle /\ agg_perm = Idle
    /\ fa_args = Idle /\ assistant = Idle

Classify ==
    /\ pc = "classify"
    /\ classification' = classify_inter_state(inv)
    /\ pc' = "classified"
    /\ UNCHANGED <<extracted, normalized, inv, inv1, inv2, norm_invoices,
                   permuted, agg, agg_perm, fa_args, assistant>>

NextClassify == Classify

SpecClassify == InitClassify /\ [][NextClassify]_vars

-----------------------------------------------------------------------------
(* C6 *)

\* The state code as the claim words it, on the GSTIN as given: its first two
\* characters when both are digits, else its first run of two digits, else null.
C6_StateCode(g) ==
    IF g = None THEN None
    ELSE IF Len(g[1]) >= 2 /\ g[1][1] \in Digit /\ g[1][2] \in Digit
         THEN Some(<<g[1][1], g[1][2]>>)
         ELSE IF \E i \in 1..(Len(g[1]) - 1) : g[1][i] \in Digit /\ g[1][i + 1] \in Digit
              THEN LET i == Min({j \in 1..(Len(g[1]) - 1) :
                                   g[1][j] \in Digit /\ g[1][j + 1] \in Digit})
                   IN Some(<<g[1][i], g[1][i + 1]>>)
              ELSE None

C6_HasParenCode(p) == p # None /\ ParenCodes(p[1]) # {}

\* C6: classify_inter_state returns (supplier code # customer code, "SS vs CC")
\* when both GSTIN state codes resolve; otherwise, when place_of_supply holds a
\* one or two digit code in parentheses (its leftmost one, read as a two-digit
\* code) and the supplier code resolves, (supplier code # that code, the reason
\* naming both); in every other case (unknown, "unknown").
C6_ClassifyContract ==
    pc = "classified" =>
        LET s == C6_StateCode(inv.supplier_gstin)
            c == C6_StateCode(inv.customer_gstin)
        IN  IF s # None /\ c # None
            THEN /\ classification.inter = Some(s[1] # c[1])
                 /\ classification.reason = s[1] \o Vs \o c[1]
            ELSE IF C6_HasParenCode(inv.place_of_supply) /\ s # None
                 THEN LET code == ZFill2(ParenGroup(inv.place_of_supply[1])) IN
                      /\ classification.inter = Some(s[1] # code)
                      /\ classification.reason = s[1] \o Vs \o code
                 ELSE /\ classification.inter = None
                      /\ classification.reason = Unknown

\* The place-of-supply case decides an intra-state supply from a one-digit code.
C6_Witness ==
    /\ pc = "classified"
    /\ gst_state_code_from_gstin(inv.customer_gstin) = None
    /\ inv.supplier_gstin = Some(<<"A", "0", "7">>)
    /\ inv.place_of_supply = Some(<<"(", "7", ")">>)
    /\ classification = Verdict(Some(FALSE), <<"0", "7", " ", "v", "s", " ", "0", "7">>)

-----------------------------------------------------------------------------
(* Money *)

\* Python truthiness of an optional number: None and 0 are falsy.
Truthy(a) == a # None /\ a[1] # 0

\* a or 0.0, as a number.
OrZero(a) == IF Truthy(a) THEN a[1] ELSE 0

\* The integer nearest to n / d (d > 0), a tie going to the even one: what
\* round() returns on a tie that binary floating point represents exactly.
RoundDiv(n, d) ==
    LET q == n \div d
        r == n % d
    IN  IF 2 * r < d THEN q
        ELSE IF 2 * r > d THEN q + 1
        ELSE IF q % 2 = 0 THEN q ELSE q + 1

\* qty * unit_price: a quantity in thousandths times an amount in mills.
Times(qty, unit_price) == (qty * unit_price) \div 1000

\* round(x, 2) of an amount in mills.
Round2(x) == 10 * RoundDiv(x, 10)

\* round(x / 2.0, 2) of an amount in mills.
RoundHalf2(x) == 10 * RoundDiv(x, 20)

-----------------------------------------------------------------------------
(* Normalized invoices *)

Item(desc, hsn, qty, unit_price, line_total, gst_rate, gst_amount) ==
    [description |-> desc, hsn |-> hsn, qty |-> qty, unit_price |-> unit_price,
     line_total |-> line_total, gst_rate |-> gst_rate, gst_amount |-> gst_amount]

\* A normalized invoice as normalize_invoice leaves it: the classification
\* keys are not set yet (inv.get() gives None for them).
Invoice(id, date, parties, items, taxable, cg, sg, ig, tt, gt) ==
    [invoice_id |-> id, invoice_date |-> date,
     supplier_gstin |-> parties.supplier_gstin,
     customer_gstin |-> parties.customer_gstin,
     place_of_supply |-> parties.place_of_supply,
     items |-> items,
     taxable_total |-> taxable, cgst |-> cg, sgst |-> sg, igst |-> ig,
     total_tax |-> tt, grand_total |-> gt,
     classification_inter_state |-> None, classification_reason |-> None]

-----------------------------------------------------------------------------
(* Tax breakup *)

\* One item's share of the tax, in hundredths of a mill (so that
\* line_total * gst_rate / 100.0 stays an integer).
ItemTax(it) ==
    IF Truthy(it.gst_amount) THEN 100 * it.gst_amount[1]
    ELSE IF Truthy(it.gst_rate) /\ it.line_total # None
         THEN it.line_total[1] * it.gst_rate[1]
         ELSE 0

RECURSIVE ItemsTax(_)
ItemsTax(items) == IF items = <<>> THEN 0 ELSE ItemTax(Head(items)) + ItemsTax(Tail(items))

\* Lines 141-149 with the guard on total_tax dropped: the items' tax is added
\* to whatever total the invoice states.
DeriveTotalTax_accumulate(i) ==
    IF i.items # <<>> /\ ItemsTax(i.items) > 0
    THEN [i EXCEPT !.total_tax = Some(OrZero(i.total_tax) + 10 * RoundDiv(ItemsTax(i.items), 1000))]
    ELSE i

\* Step 1: total_tax from the items when the invoice has none.
DeriveTotalTax(i) ==
    IF i.items # <<>> /\ ~Truthy(i.total_tax) /\ ItemsTax(i.items) > 0
    THEN [i EXCEPT !.total_tax = Some(10 * RoundDiv(ItemsTax(i.items), 1000))]
    ELSE i

\* Step 2: the classification is stored on the invoice.
StoreClassification(i) ==
    LET v == classify_inter_state(i) IN
    [i EXCEPT !.classification_inter_state = v.inter,
              !.classification_reason = Some(v.reason)]

\* Lines 155-169 with the intra-state total put on cgst alone.
SplitTax_uneven(i) ==
    LET tt == OrZero(i.total_tax) IN
    IF tt # 0 /\ i.igst = None /\ i.cgst = None /\ i.sgst = None
    THEN IF i.classification_inter_state = Some(TRUE)
         THEN [i EXCEPT !.igst = Some(Round2(tt)), !.cgst = Some(0), !.sgst = Some(0)]
         ELSE IF i.classification_inter_state = Some(FALSE)
              THEN [i EXCEPT !.cgst = Some(Round2(tt)), !.sgst = Some(0), !.igst = Some(0)]
              ELSE [i EXCEPT !.igst = Some(OrZero(i.igst)), !.cgst = Some(OrZero(i.cgst)),
                             !.sgst = Some(OrZero(i.sgst))]
    ELSE i

\* Step 3: the split of a non-zero total over igst, cgst and sgst when none
\* of the three is set.
SplitTax(i) ==
    LET tt == OrZero(i.total_tax) IN
    IF tt # 0 /\ i.igst = None /\ i.cgst = None /\ i.sgst = None
    THEN IF i.classification_inter_state = Some(TRUE)
         THEN [i EXCEPT !.igst = Some(Round2(tt)), !.cgst = Some(0), !.sgst = Some(0)]
         ELSE IF i.classification_inter_state = Some(FALSE)
              THEN [i EXCEPT !.cgst = Some(RoundHalf2(tt)), !.sgst = Some(RoundHalf2(tt)),
                             !.igst = Some(0)]
              ELSE [i EXCEPT !.igst = Some(OrZero(i.igst)), !.cgst = Some(OrZero(i.cgst)),
                             !.sgst = Some(OrZero(i.sgst))]
    ELSE i

\* Step 4: taxable_total and total_tax are never left None.
Backfill(i) ==
    [i EXCEPT !.taxable_total = Some(OrZero(i.taxable_total)),
              !.total_tax = IF Truthy(i.total_tax) THEN i.total_tax
                            ELSE Some(OrZero(i.igst) + OrZero(i.cgst) + OrZero(i.sgst))]

compute_invoice_tax_breakup(i) ==
    Backfill(SplitTax(StoreClassification(DeriveTotalTax(i))))

-----------------------------------------------------------------------------
(* Specification: the tax breakup of one invoice, applied once and again *)

MaxItems == 2

SeqsUpTo(S, n) == UNION {[1..k -> S] : k \in 0..n}

Gstin24 == <<"2", "4", "A", "B", "C", "D", "E", "1", "2", "3", "4", "F", "1", "Z", "5">>
Gstin27 == <<"2", "7", "X", "X", "X", "X", "X", "0", "0", "0", "0", "X", "1", "Z", "1">>

PartyCases ==
    { Parties(Some(Gstin24), Some(Gstin27), None),
      Parties(Some(Gstin24), Some(Gstin24), None),
      Parties(None, None, None),
      Parties(Some(Gstin24), None, Some(<<"G", "u", "j", " ", "(", "2", "4", ")">>)) }

ScenarioTax == 100 * 1000

SplitAmounts == {None, Some(0), Some(125)}
TotalTaxAmounts == {None, Some(0), Some(125), Some(250), Some(ScenarioTax)}
TaxableAmounts == {None, Some(0), Some(1000)}
GrandTotals == {None, Some(1180 * 1000)}

TaxItems ==
    { Item(<<"a">>, None, 1000, 1000, Some(1000), None, Some(125)),
      Item(<<"b">>, None, 1000, 1000, Some(1000), Some(18), None),
      Item(<<"c">>, None, 1000, 1000, Some(1000), Some(0), Some(0)),
      Item(<<"d">>, None, 1000, 1000, None, Some(18), None),
      Item(<<"e">>, None, 1000, 1000, Some(1000), None, Some(4)) }

InitTaxBreakup ==
    /\ pc = "tax"
    /\ \E p \in PartyCases, items \in SeqsUpTo(TaxItems, MaxItems),
          taxable \in TaxableAmounts, cg \in SplitAmounts, sg \in SplitAmounts,
          ig \in SplitAmounts, tt \in TotalTaxAmounts, gt \in GrandTotals :
          inv = Invoice(None, None, p, items, taxable, cg, sg, ig, tt, gt)
    /\ inv1 = Idle /\ inv2 = Idle
    /\ classification = Idle
    /\ extracted = Idle /\ normalized = Idle
    /\ norm_invoices = Idle /\ permuted = Idle
    /\ agg = Idle /\ agg_perm = Idle
    /\ fa_args = Idle /\ assistant = Idle

TaxBreakup ==
    /\ pc = "tax"
    /\ inv1' = compute_invoice_tax_breakup(inv)
    /\ pc' = "tax_once"
    /\ UNCHANGED <<extracted, normalized, inv, classification, inv2, norm_invoices,
                   permuted, agg, agg_perm, fa_args, assistant>>

TaxBreakupAgain ==
    /\ pc = "tax_once"
    /\ inv2' = compute_invoice_tax_breakup(inv1)
    /\ pc' = "tax_twice"
    /\ UNCHANGED <<extracted, normalized, inv, classification, inv1, norm_invoices,
                   permuted, agg, agg_perm, fa_args, assistant>>

NextTaxBreakup == TaxBreakup \/ TaxBreakupAgain

SpecTaxBreakup == InitTaxBreakup /\ [][NextTaxBreakup]_vars

Computed == pc \in {"tax_once", "tax_twice"}

AllUnset(i) == i.igst = None /\ i.cgst = None /\ i.sgst = None

-----------------------------------------------------------------------------
(* C1 *)

\* C1: compute_invoice_tax_breakup is idempotent: the invoice returned by a
\* second application equals, field by field, the one the first returned.
C1_Idempotent == pc = "tax_twice" => inv2 = inv1

\* The first application derived the total from the items and split it; the
\* second one ran on that result.
C1_Witness ==
    /\ pc = "tax_twice"
    /\ inv.total_tax = None /\ AllUnset(inv) /\ inv.items # <<>>
    /\ inv1.total_tax = Some(300)
    /\ inv1.cgst = Some(150) /\ inv1.sgst = Some(150) /\ inv1.igst = Some(0)

-----------------------------------------------------------------------------
(* C7 *)

\* C7 as stated, amounts compared to the cent: when total_tax is known and
\* igst, cgst and sgst are all unset, an inter-state invoice gets igst =
\* total_tax and cgst = sgst = 0, an intra-state one cgst = sgst =
\* total_tax / 2 and igst = 0, one of unknown classification igst = cgst =
\* sgst = 0.
C7_SplitWhenTotalKnown ==
    (Computed /\ inv.total_tax # None /\ AllUnset(inv)) =>
        LET tt == inv.total_tax[1]
            inter == inv1.classification_inter_state
        IN  /\ inter = Some(TRUE) =>
                 inv1.igst = Some(Round2(tt)) /\ inv1.cgst = Some(0) /\ inv1.sgst = Some(0)
            /\ inter = Some(FALSE) =>
                 /\ inv1.cgst = Some(RoundHalf2(tt)) /\ inv1.sgst = Some(RoundHalf2(tt))
                 /\ inv1.igst = Some(0)
            /\ inter = None =>
                 inv1.igst = Some(0) /\ inv1.cgst = Some(0) /\ inv1.sgst = Some(0)

-----------------------------------------------------------------------------
(* C8 *)

\* Two amounts in mills that differ by at most a cent.
WithinCent(a, b) == a - b <= 10 /\ b - a <= 10

EvenSplit(i) ==
    /\ i.cgst # None /\ i.sgst # None /\ i.total_tax # None
    /\ i.cgst = i.sgst
    /\ WithinCent(2 * i.cgst[1], i.total_tax[1])

-----------------------------------------------------------------------------
(* C9 *)

GapFields == {"igst", "cgst", "sgst", "total_tax", "taxable_total"}

\* C9 as stated: each of igst, cgst, sgst, total_tax and taxable_total that
\* the invoice states (a stated 0 included) has the same value on the invoice
\* the tax breakup returns.
C9_OnlyFillsGaps ==
    Computed => \A f \in GapFields : inv[f] # None => inv1[f] = inv[f]

-----------------------------------------------------------------------------
(* C11 *)

\* C11 as stated: on the invoice returned none of taxable_total, igst, cgst,
\* sgst, total_tax and grand_total is null, and a total_tax that was neither
\* given nor derivable from the items is igst + cgst + sgst.
C11_NoNullTotals ==
    Computed =>
        /\ \A f \in {"taxable_total", "igst", "cgst", "sgst", "total_tax", "grand_total"} :
              inv1[f] # None
        /\ (inv.total_tax = None /\ ItemsTax(inv.items) = 0) =>
              inv1.total_tax = Some(OrZero(inv1.igst) + OrZero(inv1.cgst) + OrZero(inv1.sgst))

-----------------------------------------------------------------------------
(* Sums that are never rounded: Python floats *)

\* The significand of a Python float (IEEE 754 binary64) has 53 bits.
Precision == 53

\* A float >= 0 is its significand, Precision bits with the leading one first,
\* and the exponent of its last bit; 0.0 has no bits.
Float(bits, exp) == [bits |-> bits, exp |-> exp]

Zero == Float(<<>>, 0)

Zeros(n) == [k \in 1..n |-> 0]

\* The bits of n >= 0, most significant first.
RECURSIVE BitsOf(_)
BitsOf(n) == IF n = 0 THEN <<>> ELSE BitsOf(n \div 2) \o <<n % 2>>

\* bits without its leading zeros.
Normal(bits) ==
    LET ones == {k \in 1..Len(bits) : bits[k] = 1}
    IN  IF ones = {} THEN <<>> ELSE SubSeq(bits, Min(ones), Len(bits))

\* bits + 1.
Increment(bits) ==
    LET n == Len(bits)
        zeros == {k \in 1..n : bits[k] = 0}
        last == CHOOSE k \in zeros : \A j \in zeros : j <= k
    IN  IF zeros = {} THEN <<1>> \o Zeros(n)
        ELSE [k \in 1..n |-> IF k < last THEN bits[k] ELSE IF k = last THEN 1 ELSE 0]

\* The float nearest to an exact value, a tie going to the even significand:
\* the value is bits * 2^exp, plus something below its last bit when sticky.
Rounded(bits, exp, sticky) ==
    LET n == Len(bits) IN
    IF n = 0 THEN Zero
    ELSE IF n <= Precision THEN Float(bits \o Zeros(Precision - n), exp - (Precision - n))
    ELSE LET kept == SubSeq(bits, 1, Precision)
             rest == sticky \/ \E k \in (Precision + 2)..n : bits[k] = 1
             up == bits[Precision + 1] = 1 /\ (rest \/ kept[Precision] = 1)
             more == Increment(kept)
         IN  IF ~up THEN Float(kept, exp + (n - Precision))
             ELSE IF Len(more) > Precision
                  THEN Float(SubSeq(more, 1, Precision), exp + (n - Precision) + 1)
                  ELSE Float(more, exp + (n - Precision))

\* Bits are produced and added Limb at a time.
Limb == 15

\* The number a bit string spells, and the w low bits of a number.
RECURSIVE ValueOf(_)
ValueOf(bits) ==
    IF bits = <<>> THEN 0
    ELSE 2 * ValueOf(SubSeq(bits, 1, Len(bits) - 1)) + bits[Len(bits)]

RECURSIVE LowBits(_, _)
LowBits(v, w) == IF w = 0 THEN <<>> ELSE LowBits(v \div 2, w - 1) \o <<v % 2>>

\* The first n * Limb binary places of r / 1000 (0 <= r < 1000), and what is
\* left of r after them.
RECURSIVE FracBits(_, _)
FracBits(r, n) ==
    IF n = 0 THEN <<>>
    ELSE LowBits((r * 2^Limb) \div 1000, Limb) \o FracBits((r * 2^Limb) % 1000, n - 1)

RECURSIVE FracRest(_, _)
FracRest(r, n) == IF n = 0 THEN r ELSE FracRest((r * 2^Limb) % 1000, n - 1)

\* float() of an amount of mills >= 0: the float nearest to mills / 1000.
\* A thousandth has at most 9 leading zero bits, so Precision + 11 binary
\* places hold the Precision + 1 bits the rounding looks at.
FromMills(mills) ==
    LET limbs == (Precision + 11) \div Limb + 1
        bits == BitsOf(mills \div 1000) \o FracBits(mills % 1000, limbs)
    IN  Rounded(Normal(bits), -(limbs * Limb), FracRest(mills % 1000, limbs) # 0)

\* x + y + carry for bit strings of one length: one bit more, the carry out
\* first.
RECURSIVE AddBits(_, _, _)
AddBits(x, y, carry) ==
    IF x = <<>> THEN <<carry>>
    ELSE LET n == Len(x)
             w == IF n < Limb THEN n ELSE Limb
             s == ValueOf(SubSeq(x, n - w + 1, n)) + ValueOf(SubSeq(y, n - w + 1, n)) + carry
         IN  AddBits(SubSeq(x, 1, n - w), SubSeq(y, 1, n - w), s \div 2^w) \o LowBits(s, w)

\* a + b of two floats >= 0: the exact sum, rounded once.
FloatAdd(a, b) ==
    IF a = Zero THEN b
    ELSE IF b = Zero THEN a
    ELSE LET low == Min({a.exp, b.exp})
             x == a.bits \o Zeros(a.exp - low)
             y == b.bits \o Zeros(b.exp - low)
             n == IF Len(x) > Len(y) THEN Len(x) ELSE Len(y)
         IN  Rounded(Normal(AddBits(Zeros(n - Len(x)) \o x, Zeros(n - Len(y)) \o y, 0)), low, FALSE)

-----------------------------------------------------------------------------
(* Period aggregator *)

Date(y, m, d) == [year |-> y, month |-> m, day |-> d]

DigitChars == <<"0", "1", "2", "3", "4", "5", "6", "7", "8", "9">>

\* The decimal digits of n >= 0, zero-padded to at least w characters.
RECURSIVE Decimal(_, _)
Decimal(n, w) ==
    IF n < 10 /\ w <= 1 THEN <<DigitChars[n + 1]>>
    ELSE Decimal(n \div 10, w - 1) \o <<DigitChars[(n % 10) + 1]>>

\* inv_date.strftime("%Y-%m")
YearMonth(date) == Decimal(date.year, 4) \o <<"-">> \o Decimal(date.month, 2)

\* The period key of an invoice.
PeriodOf(i) == IF i.invoice_date = None THEN Unknown ELSE YearMonth(i.invoice_date[1])

\* The row built for one invoice (lines 190-199).
Row(i) ==
    [period |-> PeriodOf(i),
     invoice_id |-> i.invoice_id,
     taxable_value |-> OrZero(i.taxable_total),
     igst |-> OrZero(i.igst),
     cgst |-> OrZero(i.cgst),
     sgst |-> OrZero(i.sgst),
     total_tax |-> OrZero(i.total_tax),
     invoice_value |-> IF Truthy(i.grand_total) THEN i.grand_total[1]
                       ELSE OrZero(i.taxable_total) + OrZero(i.total_tax)]

RECURSIVE Rows(_)
Rows(invoices) ==
    IF invoices = <<>> THEN <<>> ELSE <<Row(Head(invoices))>> \o Rows(Tail(invoices))

\* The key an item is summed under: its gst_rate, or 'unknown' (None here).
RateKey(it) == IF Truthy(it.gst_rate) THEN it.gst_rate ELSE None

\* The taxable contribution of an item (lines 204 and 207), an amount >= 0.
\* The product is exact for the quantities of the batches below (1 and 2).
ItemTaxable(it) ==
    FromMills(IF Truthy(it.line_total) THEN it.line_total[1] ELSE Times(it.qty, it.unit_price))

\* A dict with key k set to v.
Put(d, k, v) == [x \in DOMAIN d \cup {k} |-> IF x = k THEN v ELSE d[x]]

EmptyDict == [x \in {} |-> 0]

\* Lines 205-207: one item added to the breakdown of its period; the running
\* sum is a float and is never rounded.
AddRate(rb, period, it) ==
    LET inner == IF period \in DOMAIN rb THEN rb[period] ELSE EmptyDict
        old == IF RateKey(it) \in DOMAIN inner THEN inner[RateKey(it)] ELSE Zero
    IN  Put(rb, period, Put(inner, RateKey(it), FloatAdd(old, ItemTaxable(it))))

RECURSIVE AddRates(_, _, _)
AddRates(rb, period, items) ==
    IF items = <<>> THEN rb
    ELSE AddRates(AddRate(rb, period, Head(items)), period, Tail(items))

\* The rate breakdown after the loop over the invoices, in their order.
RECURSIVE RateBreakdown(_, _)
RateBreakdown(rb, invoices) ==
    IF invoices = <<>> THEN rb
    ELSE RateBreakdown(AddRates(rb, PeriodOf(Head(invoices)), Head(invoices).items),
                       Tail(invoices))

\* sum of a column over the rows of one period, in row order.
RECURSIVE ColumnSum(_, _, _)
ColumnSum(rows, period, col) ==
    IF rows = <<>> THEN 0
    ELSE (IF Head(rows).period = period THEN Head(rows)[col] ELSE 0)
         + ColumnSum(Tail(rows), period, col)

\* ('invoice_id', 'count'): the rows of the period whose invoice_id is not null.
RECURSIVE CountIds(_, _)
CountIds(rows, period) ==
    IF rows = <<>> THEN 0
    ELSE (IF Head(rows).period = period /\ Head(rows).invoice_id # None THEN 1 ELSE 0)
         + CountIds(Tail(rows), period)

\* One row of the summary (lines 212-222).
SummaryRow(rows, period) ==
    [period |-> period,
     invoice_count |-> CountIds(rows, period),
     total_taxable_value |-> Round2(ColumnSum(rows, period, "taxable_value")),
     total_igst |-> Round2(ColumnSum(rows, period, "igst")),
     total_cgst |-> Round2(ColumnSum(rows, period, "cgst")),
     total_sgst |-> Round2(ColumnSum(rows, period, "sgst")),
     total_tax |-> Round2(ColumnSum(rows, period, "total_tax")),
     total_invoice_value |-> Round2(ColumnSum(rows, period, "invoice_value"))]

RowPeriods(rows) == {rows[k].period : k \in 1..Len(rows)}

\* The pair the function returns; the summary is the set of its rows (groupby
\* emits one row per period).
aggregate_invoices_for_period(invoices) ==
    LET rows == Rows(invoices) IN
    IF rows = <<>>
    THEN [summary |-> {}, rate_breakdown |-> EmptyDict]
    ELSE [summary |-> {SummaryRow(rows, p) : p \in RowPeriods(rows)},
          rate_breakdown |-> RateBreakdown(EmptyDict, invoices)]

-----------------------------------------------------------------------------
(* Specification: one batch aggregated in two orders *)

MaxBatch == 3

NoParties == Parties(None, None, None)
BothParties == Parties(Some(Gstin24), Some(Gstin27), None)

Hsn == <<"8", "4", "7", "1">>
InvoiceId == <<"I", "N", "V", "-", "1">>

\* Scenario C: taxable 1000, tax 180, grand total 1180.
InvoiceC(id, date) ==
    LET it == Item(<<"w", "i", "d", "g", "e", "t">>, Some(Hsn), 1000, 1000 * 1000,
                   Some(1000 * 1000), Some(18), None)
    IN  [Invoice(id, date, BothParties, <<it>>, Some(1000 * 1000), Some(90 * 1000),
                 Some(90 * 1000), Some(0), Some(180 * 1000), Some(1180 * 1000))
         EXCEPT !.classification_inter_state = Some(TRUE),
                !.classification_reason = Some(<<"2", "4">> \o Vs \o <<"2", "7">>)]

\* A sparse invoice: sub-cent amounts, no grand total, an item without
\* line_total and without rate, an item at 18 percent.
InvoiceS(id, date) ==
    LET bolt == Item(<<"b", "o", "l", "t">>, None, 2000, 500, None, None, None)
        nut == Item(<<"n", "u", "t">>, Some(Hsn), 1000, 1005, Some(1005), Some(18), None)
    IN  Invoice(id, date, NoParties, <<bolt, nut>>, Some(2004), None, None,
                Some(125), Some(125), None)

BatchDates == {None, Some(Date(2024, 3, 15)), Some(Date(2024, 4, 1))}
BatchIds == {None, Some(InvoiceId)}

\* A small invoice of March: one item at 18 percent, 0.10, 0.20 or 0.30 rupees.
SmallLines == {100, 200, 300}

InvoiceP(line) ==
    LET pin == Item(<<"p", "i", "n">>, Some(Hsn), 1000, line, Some(line), Some(18), None)
    IN  Invoice(Some(InvoiceId), Some(Date(2024, 3, 15)), BothParties, <<pin>>, Some(line),
                None, None, None, None, None)

\* An invoice of March with one item at a rate of 0 percent, and one with an
\* item whose line total is stated as 0.
InvoiceZ ==
    LET rice == Item(<<"r", "i", "c", "e">>, Some(Hsn), 1000, 50 * 1000, Some(50 * 1000),
                     Some(0), Some(0))
    IN  Invoice(Some(InvoiceId), Some(Date(2024, 3, 15)), BothParties, <<rice>>,
                Some(50 * 1000), None, None, None, None, None)

InvoiceG ==
    LET gift == Item(<<"g", "i", "f", "t">>, Some(Hsn), 1000, 20 * 1000, Some(0), Some(18), None)
    IN  Invoice(Some(InvoiceId), Some(Date(2024, 3, 15)), BothParties, <<gift>>,
                Some(20 * 1000), None, None, None, None, None)

BatchInvoices ==
    {InvoiceC(id, d) : id \in BatchIds, d \in BatchDates}
    \cup {InvoiceS(id, d) : id \in BatchIds, d \in BatchDates}
    \cup {InvoiceP(line) : line \in SmallLines}
    \cup {InvoiceZ, InvoiceG}

Injective(f) == \A a, b \in DOMAIN f : f[a] = f[b] => a = b
Orders(n) == {f \in [1..n -> 1..n] : Injective(f)}
Reordered(seq, f) == [k \in 1..Len(seq) |-> seq[f[k]]]

InitAggregate ==
    /\ pc = "aggregate"
    /\ \E batch \in SeqsUpTo(BatchInvoices, MaxBatch) :
          /\ norm_invoices = batch
          /\ \E f \in Orders(Len(batch)) : permuted = Reordered(batch, f)
    /\ agg = Idle /\ agg_perm = Idle
    /\ inv = Idle /\ inv1 = Idle /\ inv2 = Idle
    /\ classification = Idle
    /\ extracted = Idle /\ normalized = Idle
    /\ fa_args = Idle /\ assistant = Idle

Aggregate ==
    /\ pc = "aggregate"
    /\ agg' = aggregate_invoices_for_period(norm_invoices)
    /\ pc' = "aggregated"
    /\ UNCHANGED <<extracted, normalized, inv, classification, inv1, inv2,
                   norm_invoices, permuted, agg_perm, fa_args, assistant>>

AggregatePermuted ==
    /\ pc = "aggregated"
    /\ agg_perm' = aggregate_invoices_for_period(permuted)
    /\ pc' = "aggregated_both"
    /\ UNCHANGED <<extracted, normalized, inv, classification, inv1, inv2,
                   norm_invoices, permuted, agg, fa_args, assistant>>

NextAggregate == Aggregate \/ AggregatePermuted

SpecAggregate == InitAggregate /\ [][NextAggregate]_vars

Aggregated == pc \in {"aggregated", "aggregated_both"}

-----------------------------------------------------------------------------
(* C2 *)

\* C2 as stated: aggregate_invoices_for_period is order-independent: a batch
\* and any permutation of it give the same set of summary rows (period,
\* invoice_count and the six totals) and the same rate breakdown.
C2_OrderIndependent ==
    pc = "aggregated_both" =>
        /\ agg.summary = agg_perm.summary
        /\ agg.rate_breakdown = agg_perm.rate_breakdown

-----------------------------------------------------------------------------
(* C3 *)

InvoicesOf(invoices, period) ==
    {k \in 1..Len(invoices) : PeriodOf(invoices[k]) = period}

\* The fields of one invoice as the claim reads them: a missing amount counts
\* as 0, a grand_total that is present is the invoice value.
C3_Fields(i) ==
    LET amount(a) == IF a = None THEN 0 ELSE a[1] IN
    [taxable |-> amount(i.taxable_total),
     igst |-> amount(i.igst),
     cgst |-> amount(i.cgst),
     sgst |-> amount(i.sgst),
     tax |-> amount(i.total_tax),
     value |-> IF i.grand_total # None THEN i.grand_total[1]
               ELSE amount(i.taxable_total) + amount(i.total_tax)]

RECURSIVE SumOver(_, _, _)
SumOver(invoices, ks, field) ==
    IF ks = {} THEN 0
    ELSE LET k == CHOOSE x \in ks : TRUE
         IN  C3_Fields(invoices[k])[field] + SumOver(invoices, ks \ {k}, field)

\* C3 as stated, totals compared to the cent: a non-empty batch gives exactly
\* one row per distinct period key; in each row invoice_count is the number of
\* invoices of the batch with that key (with or without an invoice_id) and each
\* total is the sum of the field over those invoices, the invoice value being
\* grand_total if present and taxable_total + total_tax otherwise.
C3_OneRowPerPeriod ==
    (Aggregated /\ norm_invoices # <<>>) =>
        /\ {r.period : r \in agg.summary} =
               {PeriodOf(norm_invoices[k]) : k \in 1..Len(norm_invoices)}
        /\ \A r \in agg.summary :
              LET ks == InvoicesOf(norm_invoices, r.period) IN
              /\ \A q \in agg.summary : q.period = r.period => q = r
              /\ r.invoice_count = Cardinality(ks)
              /\ r.total_taxable_value = Round2(SumOver(norm_invoices, ks, "taxable"))
              /\ r.total_igst = Round2(SumOver(norm_invoices, ks, "igst"))
              /\ r.total_cgst = Round2(SumOver(norm_invoices, ks, "cgst"))
              /\ r.total_sgst = Round2(SumOver(norm_invoices, ks, "sgst"))
              /\ r.total_tax = Round2(SumOver(norm_invoices, ks, "tax"))
              /\ r.total_invoice_value = Round2(SumOver(norm_invoices, ks, "value"))

-----------------------------------------------------------------------------
(* C13 *)

\* The breakdown as the claim reads it, summed in the order of the batch: an
\* item is summed under its gst_rate when it has one (0 included) and under
\* 'unknown' (None here) only when it has none; its contribution is its
\* line_total, or qty x unit_price when line_total is missing.
C13_Add(rb, period, it) ==
    LET inner == IF period \in DOMAIN rb THEN rb[period] ELSE EmptyDict
        old == IF it.gst_rate \in DOMAIN inner THEN inner[it.gst_rate] ELSE Zero
        value == IF it.line_total # None THEN it.line_total[1]
                 ELSE Times(it.qty, it.unit_price)
    IN  Put(rb, period, Put(inner, it.gst_rate, FloatAdd(old, FromMills(value))))

RECURSIVE C13_AddItems(_, _, _)
C13_AddItems(rb, period, items) ==
    IF items = <<>> THEN rb
    ELSE C13_AddItems(C13_Add(rb, period, Head(items)), period, Tail(items))

RECURSIVE C13_Breakdown(_, _)
C13_Breakdown(rb, invoices) ==
    IF invoices = <<>> THEN rb
    ELSE C13_Breakdown(C13_AddItems(rb, PeriodOf(Head(invoices)), Head(invoices).items),
                       Tail(invoices))

\* C13 as stated: the rate breakdown maps, per period, each gst_rate that
\* occurs on an item (a rate of 0 included) to the sum of line_total (qty x
\* unit_price when line_total is missing) over the items of that period with
\* that rate; only items without gst_rate are summed under 'unknown'.
C13_RateBreakdown ==
    Aggregated => agg.rate_breakdown = C13_Breakdown(EmptyDict, norm_invoices)

-----------------------------------------------------------------------------
(* Filing assistant *)

\* The entry a period is seeded with (lines 230-238).
SeedEntry ==
    [total_taxable_value |-> 0, total_tax |-> 0, total_invoice_value |-> 0,
     invoice_count |-> 0,
     recommendation |-> [text |-> "", amount |-> 0, period |-> <<>>],
     tax_to_pay |-> 0,
     anomalies |-> <<>>,
     rate_breakdown |-> EmptyDict,
     summary_text |-> <<>>]

Advice(text) == [text |-> text, amount |-> 0, period |-> <<>>]

\* f"File return and pay ...{tax_to_pay:.2f} for period {p}."
PayAdvice(amount, period) ==
    [text |-> "File return and pay", amount |-> Round2(amount), period |-> period]

\* The entry of a summary row (lines 241-248).
RowEntry(r) ==
    [SeedEntry EXCEPT
        !.total_taxable_value = r.total_taxable_value,
        !.total_tax = r.total_tax,
        !.total_invoice_value = r.total_invoice_value,
        !.invoice_count = r.invoice_count,
        !.tax_to_pay = r.total_tax,
        !.recommendation = IF r.invoice_count > 0 \/ r.total_tax > 0
                           THEN Advice("File return for this period.")
                           ELSE Advice("No filing required (nil).")]

\* per_period after the first two loops: one entry per period of the summary,
\* or the single 'unknown' entry of an empty summary.
SeedEntries(summary) ==
    IF summary = {} THEN [p \in {Unknown} |-> SeedEntry]
    ELSE [p \in {r.period : r \in summary} |->
             RowEntry(CHOOSE r \in summary : r.period = p)]

Anomaly(id, kind, item, sum_lines, taxable) ==
    [invoice_id |-> id,
     issue |-> [kind |-> kind, item |-> item, sum_lines |-> sum_lines, taxable |-> taxable]]

\* One anomaly per item without an HSN code, naming its description.
RECURSIVE MissingHsn(_, _)
MissingHsn(id, items) ==
    IF items = <<>> THEN <<>>
    ELSE (IF ~TruthyText(Head(items).hsn)
          THEN <<Anomaly(id, "Missing HSN for item", Head(items).description, 0, 0)>>
          ELSE <<>>)
         \o MissingHsn(id, Tail(items))

\* The value of one line in the reconciliation (line 264).
LineValue(it) ==
    IF it.line_total # None THEN it.line_total[1] ELSE Times(it.qty, it.unit_price)

RECURSIVE SumLines(_)
SumLines(items) == IF items = <<>> THEN 0 ELSE LineValue(Head(items)) + SumLines(Tail(items))

Abs(x) == IF x < 0 THEN -x ELSE x

\* The tolerance of the reconciliation, 0.5, in mills.
MismatchTolerance == 500

\* Lines 261-269: the reconciliation of the items with the taxable total.
Mismatch(i) ==
    IF i.items # <<>> /\ Truthy(i.taxable_total)
    THEN LET sum_lines == Round2(SumLines(i.items))
             taxable == Round2(i.taxable_total[1])
         IN  IF Abs(sum_lines - taxable) > MismatchTolerance
             THEN <<Anomaly(i.invoice_id, "Taxable mismatch", <<>>, sum_lines, taxable)>>
             ELSE <<>>
    ELSE <<>>

\* The anomalies of one invoice, in the order of the checks (lines 253-271).
Anomalies(i) ==
    (IF ~TruthyText(i.supplier_gstin)
     THEN <<Anomaly(i.invoice_id, "Missing supplier GSTIN", <<>>, 0, 0)>> ELSE <<>>)
    \o (IF ~TruthyText(i.customer_gstin)
        THEN <<Anomaly(i.invoice_id, "Missing customer GSTIN", <<>>, 0, 0)>> ELSE <<>>)
    \o MissingHsn(i.invoice_id, i.items)
    \o Mismatch(i)
    \o (IF i.classification_inter_state = None
        THEN <<Anomaly(i.invoice_id, "Inter/intra classification unknown", <<>>, 0, 0)>>
        ELSE <<>>)

\* The loop over the invoices: per_period[period] is looked up only when an
\* anomaly is appended, and raises KeyError for a period that has no entry.
RECURSIVE Scan(_, _)
Scan(st, invoices) ==
    IF invoices = <<>> \/ st.raised # "" THEN st
    ELSE LET i == Head(invoices)
             p == PeriodOf(i)
             found == Anomalies(i)
         IN  IF found = <<>> THEN Scan(st, Tail(invoices))
             ELSE IF p \notin DOMAIN st.entries
                  THEN [raised |-> "KeyError", entries |-> st.entries]
                  ELSE Scan([st EXCEPT !.entries[p].anomalies = @ \o found], Tail(invoices))

\* f"Period {p}: {n} invoices, taxable ...{x:.2f}, tax ...{y:.2f}."
SummaryText(p, e) ==
    <<p, e.invoice_count, Round2(e.total_taxable_value), Round2(e.total_tax)>>

\* The last loop (lines 273-277).
Finish(entries, rate_breakdown, pay_threshold) ==
    [p \in DOMAIN entries |->
        LET e == entries[p] IN
        [e EXCEPT
            !.recommendation = IF e.tax_to_pay # 0 /\ e.tax_to_pay > pay_threshold
                               THEN PayAdvice(e.tax_to_pay, p) ELSE @,
            !.rate_breakdown = IF p \in DOMAIN rate_breakdown
                               THEN rate_breakdown[p] ELSE EmptyDict,
            !.summary_text = SummaryText(p, e)]]

\* The call: what it raised ("" when it returned) and the mapping it returned.
filing_assistant(summary, rate_breakdown, invoices, pay_threshold) ==
    LET st == Scan([raised |-> "", entries |-> SeedEntries(summary)], invoices) IN
    IF st.raised # "" THEN [raised |-> st.raised, entries |-> EmptyDict]
    ELSE [raised |-> "", entries |-> Finish(st.entries, rate_breakdown, pay_threshold)]

-----------------------------------------------------------------------------
(* Specification: one call of the filing assistant *)

March == Some(Date(2024, 3, 15))
April == Some(Date(2024, 4, 1))

\* Scenario D and its neighbours: two lines that sum to `lines` (the second
\* one without line_total) against a stated taxable total.
InvoiceD(date, lines, taxable) ==
    LET first == Item(<<"p", "i", "p", "e">>, Some(Hsn), 1000, lines - 300, Some(lines - 300),
                      Some(18), None)
        second == Item(<<"c", "a", "p">>, Some(Hsn), 2000, 150, None, Some(18), None)
    IN  [Invoice(Some(InvoiceId), date, BothParties, <<first, second>>, taxable,
                 None, None, None, None, None)
         EXCEPT !.classification_inter_state = Some(TRUE),
                !.classification_reason = Some(<<"2", "4">> \o Vs \o <<"2", "7">>)]

StatedTaxables ==
    {None, Some(0), Some(1000 * 1000), Some(900 * 1000 + 500), Some(900 * 1000 + 505),
     Some(900 * 1000 + 510)}

\* An invoice of March without invoice number and without tax.
Unnumbered == [InvoiceD(March, 900 * 1000, Some(900 * 1000)) EXCEPT !.invoice_id = None]

FilingInvoices ==
    {InvoiceD(d, 900 * 1000, t) : d \in {None, March}, t \in StatedTaxables}
    \cup {InvoiceC(Some(InvoiceId), d) : d \in {None, March}}
    \cup {InvoiceS(Some(InvoiceId), d) : d \in {None, March}}
    \cup {InvoiceC(None, April), InvoiceS(None, April), Unnumbered}

PayThresholds == {0, 200 * 1000}

FilingArgs(batch, threshold) ==
    [summary |-> aggregate_invoices_for_period(batch).summary,
     rate_breakdown |-> aggregate_invoices_for_period(batch).rate_breakdown,
     pay_threshold |-> threshold]

InitFiling ==
    /\ pc = "file"
    /\ \E batch \in SeqsUpTo(FilingInvoices, MaxBatch), threshold \in PayThresholds :
          /\ norm_invoices = batch
          /\ \E of \in {batch, <<>>, <<InvoiceC(Some(InvoiceId), March)>>} :
                fa_args = FilingArgs(of, threshold)
    /\ assistant = Idle
    /\ permuted = Idle /\ agg = Idle /\ agg_perm = Idle
    /\ inv = Idle /\ inv1 = Idle /\ inv2 = Idle
    /\ classification = Idle
    /\ extracted = Idle /\ normalized = Idle

FilingAssistant ==
    /\ pc = "file"
    /\ assistant' = filing_assistant(fa_args.summary, fa_args.rate_breakdown,
                                     norm_invoices, fa_args.pay_threshold)
    /\ pc' = "filed"
    /\ UNCHANGED <<extracted, normalized, inv, classification, inv1, inv2,
                   norm_invoices, permuted, agg, agg_perm, fa_args>>

NextFiling == FilingAssistant

SpecFiling == InitFiling /\ [][NextFiling]_vars

-----------------------------------------------------------------------------
(* C4 *)

\* C4 as stated: the call completes, and its result holds an entry for every
\* period of the summary and for the period key of every invoice passed.
C4_EntryForEveryPeriod ==
    pc = "filed" =>
        /\ assistant.raised = ""
        /\ \A r \in fa_args.summary : r.period \in DOMAIN assistant.entries
        /\ \A k \in 1..Len(norm_invoices) :
              PeriodOf(norm_invoices[k]) \in DOMAIN assistant.entries

-----------------------------------------------------------------------------
(* C10 *)

RECURSIVE CountKind(_, _)
CountKind(anomalies, kind) ==
    IF anomalies = <<>> THEN 0
    ELSE (IF Head(anomalies).issue.kind = kind THEN 1 ELSE 0) + CountKind(Tail(anomalies), kind)

\* The invoices the claim says are reported: items, a stated taxable_total,
\* and a difference of more than 0.5 between the two rounded values.
C10_Mismatched(i) ==
    /\ i.items # <<>> /\ i.taxable_total # None
    /\ Abs(Round2(SumLines(i.items)) - Round2(i.taxable_total[1])) > MismatchTolerance

\* C10 as stated, for the calls that return: the entry of each period holds one
\* 'Taxable mismatch' anomaly, naming both values, per invoice of that period
\* that has items and a stated taxable_total more than 0.5 away from the sum of
\* its lines, and none for any other invoice.
C10_MismatchReported ==
    (pc = "filed" /\ assistant.raised = "") =>
        \A p \in DOMAIN assistant.entries :
            LET ks == {k \in InvoicesOf(norm_invoices, p) : C10_Mismatched(norm_invoices[k])}
                found == assistant.entries[p].anomalies
            IN  /\ CountKind(found, "Taxable mismatch") = Cardinality(ks)
                /\ \A k \in ks :
                      \E n \in 1..Len(found) :
                         found[n] = Anomaly(norm_invoices[k].invoice_id, "Taxable mismatch",
                                            <<>>, Round2(SumLines(norm_invoices[k].items)),
                                            Round2(norm_invoices[k].taxable_total[1]))

-----------------------------------------------------------------------------
(* C12 *)

\* The recommendation the claim gives an entry of period p.
C12_Recommendation(p, e, pay_threshold) ==
    IF e.tax_to_pay > pay_threshold THEN PayAdvice(e.tax_to_pay, p)
    ELSE IF e.invoice_count > 0 \/ e.total_tax > 0
         THEN Advice("File return for this period.")
         ELSE Advice("No filing required (nil).")

\* The call was given the summary of the very invoices it was given.
C12_OwnSummary ==
    fa_args.summary = aggregate_invoices_for_period(norm_invoices).summary

\* C12 as stated, for the calls that return: every entry (the 'unknown' entry
\* of an empty summary included) recommends the payment, naming amount and
\* period, if its tax_to_pay exceeds pay_threshold, else to file if its
\* invoice_count > 0 or its total_tax > 0, else that no filing is required;
\* and a period that contains an invoice never gets 'no filing required'.
C12_RecommendationRule ==
    (pc = "filed" /\ assistant.raised = "") =>
        \A p \in DOMAIN assistant.entries :
            LET e == assistant.entries[p] IN
            /\ e.recommendation = C12_Recommendation(p, e, fa_args.pay_threshold)
            /\ (C12_OwnSummary /\ InvoicesOf(norm_invoices, p) # {}) =>
                  e.recommendation # Advice("No filing required (nil).")

-----------------------------------------------------------------------------
(* Raw extracted values *)

\* A value of the extracted mapping: a key that is absent, null, a number (in
\* mills), a text, a list, or a mapping (of raw values, by key).
Raw(kind, num, text, list, dict) ==
    [kind |-> kind, num |-> num, text |-> text, list |-> list, dict |-> dict]

NoKeys == [k \in {} |-> 0]

Absent == Raw("absent", 0, <<>>, <<>>, NoKeys)
Null == Raw("null", 0, <<>>, <<>>, NoKeys)
Num(n) == Raw("num", n, <<>>, <<>>, NoKeys)
Text(t) == Raw("text", 0, t, <<>>, NoKeys)
List(l) == Raw("list", 0, <<>>, l, NoKeys)
Dict(d) == Raw("dict", 0, <<>>, <<>>, d)

\* d.get(key)
Get(d, key) == IF key \in DOMAIN d /\ d[key].kind # "absent" THEN d[key] ELSE Null

\* Python truthiness of a raw value.
RawTruthy(v) ==
    CASE v.kind = "num" -> v.num # 0
      [] v.kind = "text" -> v.text # <<>>
      [] v.kind = "list" -> v.list # <<>>
      [] v.kind = "dict" -> DOMAIN v.dict # {}
      [] OTHER -> FALSE

\* a or b
Or(a, b) == IF RawTruthy(a) THEN a ELSE b

\* The text of a value that is a text (None otherwise): the identity fields
\* are texts or missing in the extracted mappings considered.
TextOf(v) == IF v.kind = "text" THEN Some(v.text) ELSE None

-----------------------------------------------------------------------------
(* parse_amount *)

RECURSIVE Filter(_, _)
Filter(s, keep) ==
    IF s = <<>> THEN <<>>
    ELSE (IF Head(s) \in keep THEN <<Head(s)>> ELSE <<>>) \o Filter(Tail(s), keep)

DigitValue(c) == CHOOSE d \in 0..9 : DigitChars[d + 1] = c

\* The number a text of digits denotes ('' denotes 0).
RECURSIVE DigitsValue(_)
DigitsValue(s) ==
    IF s = <<>> THEN 0
    ELSE 10 * DigitsValue(SubSeq(s, 1, Len(s) - 1)) + DigitValue(s[Len(s)])

\* float(s) of a text: an optional '-', digits with at most one '.', at least
\* one digit; None when float() raises ValueError. The value is in mills, the
\* decimals after the third dropped.
FloatOf(s) ==
    LET neg == s # <<>> /\ Head(s) = "-"
        body == IF neg THEN Tail(s) ELSE s
        dots == {k \in 1..Len(body) : body[k] = "."}
    IN  IF /\ \A k \in 1..Len(body) : body[k] \in Digit \cup {"."}
           /\ Cardinality(dots) <= 1
           /\ \E k \in 1..Len(body) : body[k] \in Digit
        THEN LET dot == IF dots = {} THEN Len(body) + 1 ELSE CHOOSE k \in dots : TRUE
                 whole == SubSeq(body, 1, dot - 1)
                 frac == SubSeq(SubSeq(body, dot + 1, Len(body)) \o <<"0", "0", "0">>, 1, 3)
                 mills == 1000 * DigitsValue(whole) + DigitsValue(frac)
             IN  Some(IF neg THEN -mills ELSE mills)
        ELSE None

\* The end of the run of digits that starts at position i (i - 1 if none).
RECURSIVE DigitsEnd(_, _)
DigitsEnd(s, i) == IF i <= Len(s) /\ s[i] \in Digit THEN DigitsEnd(s, i + 1) ELSE i - 1

\* re.search(r'(\d+[.,]?\d*)', s).group(1), or None.
FirstNumber(s) ==
    LET starts == {k \in 1..Len(s) : s[k] \in Digit} IN
    IF starts = {} THEN None
    ELSE LET i == Min(starts)
             j == DigitsEnd(s, i)
             k == IF j + 1 <= Len(s) /\ s[j + 1] \in {".", ","}
                  THEN DigitsEnd(s, j + 2) ELSE j
         IN  Some(SubSeq(s, i, k))

\* parse_amount of a text.
ParseAmountText(s) ==
    LET s2 == Filter(s, Digit \cup {".", "-"}) IN
    IF s2 = <<>> THEN None
    ELSE IF FloatOf(s2) # None THEN FloatOf(s2)
    ELSE IF FirstNumber(s) # None
         THEN FloatOf(Filter(FirstNumber(s)[1], Digit \cup {"."}))
         ELSE None

\* parse_amount: None, a number as it is, else the text of the value parsed
\* (the text of a list or of a mapping of texts holds no digit).
parse_amount(v) ==
    CASE v.kind \in {"absent", "null"} -> None
      [] v.kind = "num" -> Some(v.num)
      [] v.kind = "text" -> ParseAmountText(v.text)
      [] OTHER -> None

-----------------------------------------------------------------------------
(* parse_date_safe *)

Separator == {"/", "-"}

\* The texts between the separators of s.
RECURSIVE Split(_, _)
Split(s, cur) ==
    IF s = <<>> THEN <<cur>>
    ELSE IF Head(s) \in Separator THEN <<cur>> \o Split(Tail(s), <<>>)
    ELSE Split(Tail(s), cur \o <<Head(s)>>)

AllDigits(s) == s # <<>> /\ \A k \in 1..Len(s) : s[k] \in Digit

ValidDate(y, m, d) == IF m \in 1..12 /\ d \in 1..31 THEN Some(Date(y, m, d)) ELSE None

\* dateutil's parse(str(s), dayfirst=False, fuzzy=True).date(), with every
\* exception turned into None, on the texts this model feeds it: three groups
\* of digits, year first when the first group has four digits, else month,
\* day, year (day first when the first group cannot be a month), a two-digit
\* year being one of this century; any other text holds no date.
parse_date_text(s) ==
    LET g == Split(Strip(s), <<>>) IN
    IF Len(g) = 3 /\ \A k \in 1..3 : AllDigits(g[k]) /\ Len(g[k]) <= 4
    THEN LET a == DigitsValue(g[1])
             b == DigitsValue(g[2])
             c == DigitsValue(g[3])
         IN  IF Len(g[1]) = 4 THEN ValidDate(a, b, c)
             ELSE LET y == IF Len(g[3]) <= 2 THEN 2000 + c ELSE c IN
                  IF a > 12 THEN ValidDate(y, b, a) ELSE ValidDate(y, a, b)
    ELSE None

parse_date_safe(v) ==
    CASE v.kind \in {"absent", "null"} -> None
      [] v.kind = "text" -> parse_date_text(v.text)
      [] OTHER -> None

\* The matches of r'(\d{1,2}[\/\-]\d{1,2}[\/\-]\d{2,4})' that start at i, as
\* the lengths of the three groups.
DateMatches(s, i) ==
    {m \in (1..2) \X (1..2) \X (2..4) :
        LET p == i + m[1]
            q == p + 1 + m[2]
        IN  /\ q + m[3] <= Len(s)
            /\ \A k \in i..(p - 1) : s[k] \in Digit
            /\ s[p] \in Separator
            /\ \A k \in (p + 1)..(q - 1) : s[k] \in Digit
            /\ s[q] \in Separator
            /\ \A k \in (q + 1)..(q + m[3]) : s[k] \in Digit}

\* m.group(1) of the leftmost match, the last group as long as it can be.
DateLike(s) ==
    LET starts == {i \in 1..Len(s) : DateMatches(s, i) # {}} IN
    IF starts = {} THEN None
    ELSE LET i == Min(starts)
             m == CHOOSE x \in DateMatches(s, i) : \A y \in DateMatches(s, i) : y[3] <= x[3]
         IN  Some(SubSeq(s, i, i + m[1] + m[2] + m[3] + 1))

-----------------------------------------------------------------------------
(* Invoice normalizer *)

\* What a call raised ("" when it returned) and what it returned.
Returned(value) == [raised |-> "", value |-> value]
Raised(exception) == [raised |-> exception, value |-> None]

\* Lines 60-66: the date field, else a date found in raw_text; re.search
\* raises TypeError on a raw_text that is no text.
InvoiceDate(extracted_) ==
    LET primary == parse_date_safe(Get(extracted_, "Invoice Date"))
        raw == IF "raw_text" \in DOMAIN extracted_ /\ extracted_["raw_text"].kind # "absent"
               THEN extracted_["raw_text"] ELSE Text(<<>>)
    IN  IF primary # None THEN Returned(primary)
        ELSE IF raw.kind # "text" THEN Raised("TypeError")
        ELSE IF DateLike(raw.text) = None THEN Returned(None)
        ELSE Returned(parse_date_text(DateLike(raw.text)[1]))

RECURSIVE Remove(_, _)
Remove(s, drop) ==
    IF s = <<>> THEN <<>>
    ELSE (IF Head(s) \in drop THEN <<>> ELSE <<Head(s)>>) \o Remove(Tail(s), drop)

\* float(str(v).replace('%', '')) in whole percents, None when float() raises:
\* float() takes a decimal with blanks around it.
RateOf(v) ==
    CASE v.kind = "num" -> Some(v.num \div 1000)
      [] v.kind = "text" ->
            LET f == FloatOf(Strip(Remove(v.text, {"%"})))
            IN  IF f = None THEN None ELSE Some(f[1] \div 1000)
      [] OTHER -> None

\* One raw line item normalized (lines 77-97).
NormalizeItem(it) ==
    LET desc == Or(Get(it, "Item Name"), Or(Get(it, "Item"), Or(Get(it, "description"), Text(<<>>))))
        hsn == Or(Get(it, "HSN/SAC Code"), Get(it, "HSN"))
        qty_parsed == parse_amount(Or(Get(it, "Quantity"), Or(Get(it, "Qty"), Num(1000))))
        qty == IF Truthy(qty_parsed) THEN qty_parsed[1] ELSE 1000
        price_parsed == parse_amount(Or(Get(it, "Unit Price"), Or(Get(it, "Rate"), Num(0))))
        unit_price == IF Truthy(price_parsed) THEN price_parsed[1] ELSE 0
        line_total == parse_amount(Or(Get(it, "Line Total"),
                                      Or(Get(it, "Amount"), Num(Times(qty, unit_price)))))
        gst_rate == IF RawTruthy(Get(it, "GST Rate")) THEN RateOf(Get(it, "GST Rate")) ELSE None
        gst_amount == parse_amount(Or(Get(it, "GST Amount"), Or(Get(it, "Tax Amount"), Null)))
    IN  Item(Strip(desc.text),
             IF RawTruthy(hsn) THEN Some(Strip(hsn.text)) ELSE None,
             qty, unit_price, line_total, gst_rate, gst_amount)

\* Lines 73-98: it.get raises AttributeError on an entry that is no mapping.
RECURSIVE NormalizeItems(_)
NormalizeItems(raw_items) ==
    IF raw_items = <<>> THEN Returned(<<>>)
    ELSE IF Head(raw_items).kind # "dict" THEN Raised("AttributeError")
    ELSE LET rest == NormalizeItems(Tail(raw_items)) IN
         IF rest.raised # "" THEN rest
         ELSE Returned(<<NormalizeItem(Head(raw_items).dict)>> \o rest.value)

\* Lines 110-113: the taxable total derived from the items.
RECURSIVE ItemsTotal(_)
ItemsTotal(items) ==
    IF items = <<>> THEN 0
    ELSE (IF Truthy(Head(items).line_total) THEN Head(items).line_total[1]
          ELSE Times(Head(items).qty, Head(items).unit_price))
         + ItemsTotal(Tail(items))

Total(extracted_, first, second) ==
    parse_amount(Or(Get(extracted_, first), Or(Get(extracted_, second), Null)))

normalize_invoice(extracted_) ==
    LET date == InvoiceDate(extracted_)
        raw_items == Or(Get(extracted_, "Items"), List(<<>>))
        items == IF raw_items.kind = "list" /\ raw_items.list # <<>>
                 THEN NormalizeItems(raw_items.list) ELSE Returned(<<>>)
        stated == Total(extracted_, "Taxable Amount", "Taxable")
        parties == Parties(
            TextOf(Or(Get(extracted_, "Vendor GSTIN"), Get(extracted_, "Vendor GSTIN "))),
            TextOf(Or(Get(extracted_, "Customer GSTIN"), Null)),
            TextOf(Or(Get(extracted_, "Vendor Address"), Get(extracted_, "Customer Address"))))
    IN  IF date.raised # "" THEN Raised(date.raised)
        ELSE IF items.raised # "" THEN Raised(items.raised)
        ELSE Returned(
            Invoice(TextOf(Or(Get(extracted_, "Invoice Number"),
                              Or(Get(extracted_, "invoice_no"), Null))),
                    date.value, parties, items.value,
                    IF ~Truthy(stated) /\ items.value # <<>>
                    THEN Some(Round2(ItemsTotal(items.value))) ELSE stated,
                    Total(extracted_, "CGST Amount", "CGST"),
                    Total(extracted_, "SGST Amount", "SGST"),
                    Total(extracted_, "IGST Amount", "IGST"),
                    Total(extracted_, "Total Tax", "Total Tax "),
                    Total(extracted_, "Total Amount", "Grand Total"))
            @@ [raw_invoice_id |-> Get(extracted_, "Invoice Number"),
                raw_extracted |-> extracted_])

-----------------------------------------------------------------------------
(* Specification: one extracted mapping normalized *)

MaxAmountLen == 3

AmountChars == {"1", "5", ".", "-", ",", "a"}

IsoDate == <<"2", "0", "2", "4", "-", "0", "3", "-", "1", "5">>
Junk == <<"a", "b", "c">>
Scan1 == <<"o", "n", " ", "1", "5", "/", "0", "3", "/", "2", "4">>
Rupees == <<"R", "s", "1", ",", "2", "3", "4", ".", "5", "0">>

DateFields == {Absent, Text(IsoDate), Text(Junk)}
RawTexts == {Absent, Null, Num(5000), Text(Scan1), Text(Junk)}

\* A raw line item: only the keys that are present are in the mapping.
Field(key, v) == IF v.kind = "absent" THEN NoKeys ELSE (key :> v)

RawItem(name, hsn, quantity, price, line, rate) ==
    Dict(Field("Item Name", name) @@ Field("HSN/SAC Code", hsn) @@ Field("Quantity", quantity)
         @@ Field("Unit Price", price) @@ Field("Line Total", line) @@ Field("GST Rate", rate))

Bolt == Text(<<"b", "o", "l", "t">>)

RawEntries ==
    {RawItem(Bolt, Text(Hsn), q, p, l, Absent) :
        q \in {Absent, Text(<<"0">>), Text(<<"2">>), Text(Junk)},
        p \in {Absent, Text(<<"4", ".", "5", "0">>)},
        l \in {Absent, Text(<<"0">>), Text(<<"7">>)}}
    \cup {RawItem(Absent, Absent, Text(<<"2">>), Text(<<"4", ".", "5", "0">>), Text(Junk), r) :
        r \in {Text(<<"1", "8", "%">>), Text(<<"0", "%">>), Num(0), Text(Junk)}}
    \cup {Text(Junk), Null}

Extracted(date, raw, items, taxable) ==
    Field("Invoice Date", date) @@ Field("raw_text", raw) @@ Field("Items", items)
    @@ Field("Taxable Amount", taxable)
    @@ ("Invoice Number" :> Text(InvoiceId)) @@ ("Vendor GSTIN" :> Text(Gstin24))
    @@ ("Total Tax" :> Text(Rupees))

InitNormalize ==
    /\ pc = "normalize"
    /\ \/ \E date \in DateFields, raw \in RawTexts,
             items \in {Absent, List(<<RawItem(Bolt, Absent, Absent, Absent, Absent, Absent)>>),
                        List(<<Text(Junk)>>)},
             t \in TextsUpTo(AmountChars, MaxAmountLen) :
             extracted = Extracted(date, raw, items, Text(t))
       \/ \E date \in {Text(IsoDate)}, raw \in {Absent},
             entries \in SeqsUpTo(RawEntries, MaxItems),
             taxable \in {Absent, Num(0), Text(Rupees)} :
             extracted = Extracted(date, raw, List(entries), taxable)
    /\ normalized = Idle
    /\ inv = Idle /\ inv1 = Idle /\ inv2 = Idle
    /\ classification = Idle
    /\ norm_invoices = Idle /\ permuted = Idle
    /\ agg = Idle /\ agg_perm = Idle
    /\ fa_args = Idle /\ assistant = Idle

Normalize ==
    /\ pc = "normalize"
    /\ normalized' = normalize_invoice(extracted)
    /\ pc' = "normalized"
    /\ UNCHANGED <<extracted, inv, classification, inv1, inv2, norm_invoices,
                   permuted, agg, agg_perm, fa_args, assistant>>

NextNormalize == Normalize

SpecNormalize == InitNormalize /\ [][NextNormalize]_vars

-----------------------------------------------------------------------------
(* C5 *)

\* C5 as stated: normalize_invoice never raises; for every extracted mapping
\* it returns a normalized invoice.
C5_NeverRaises == pc = "normalized" => normalized.raised = ""

-----------------------------------------------------------------------------
(* C14 *)

\* The field of a raw item under its label or its alias, when it is there.
C14_Field(it, label, alias) ==
    IF Get(it, label).kind # "null" THEN Get(it, label) ELSE Get(it, alias)

\* A number field as the claim reads it: the parsed value when the field is
\* present and parseable (0 included), the default otherwise.
C14_Number(it, label, alias, default) ==
    LET parsed == parse_amount(C14_Field(it, label, alias))
    IN  IF parsed # None THEN parsed[1] ELSE default

\* The line total as the claim reads it: the explicit field when present (an
\* explicit 0 included), qty x unit_price otherwise.
C14_LineTotal(it) ==
    IF C14_Field(it, "Line Total", "Amount").kind # "null"
    THEN parse_amount(C14_Field(it, "Line Total", "Amount"))
    ELSE Some(Times(C14_Number(it, "Quantity", "Qty", 1000),
                    C14_Number(it, "Unit Price", "Rate", 0)))

\* The sum of the line totals of normalized items, an item whose line total
\* is missing counting for qty x unit_price.
RECURSIVE C14_Sum(_)
C14_Sum(items) ==
    IF items = <<>> THEN 0
    ELSE (IF Head(items).line_total # None THEN Head(items).line_total[1]
          ELSE Times(Head(items).qty, Head(items).unit_price))
         + C14_Sum(Tail(items))

\* C14 as stated: qty is the parsed quantity whenever the field is present
\* and parseable (0 included) and 1 only otherwise, unit_price likewise with
\* default 0, line_total the explicit field when present (0 included) and
\* qty x unit_price otherwise; a taxable_total the document does not resolve
\* is the sum of the items' line totals rounded to 2 decimals.
C14_LineItems ==
    (pc = "normalized" /\ normalized.raised = "") =>
        LET raw_items == Get(extracted, "Items")
            items == normalized.value.items
        IN  (raw_items.kind = "list" /\ raw_items.list # <<>>) =>
                /\ Len(items) = Len(raw_items.list)
                /\ \A k \in 1..Len(items) :
                      LET it == raw_items.list[k].dict IN
                      /\ items[k].qty = C14_Number(it, "Quantity", "Qty", 1000)
                      /\ items[k].unit_price = C14_Number(it, "Unit Price", "Rate", 0)
                      /\ items[k].line_total = C14_LineTotal(it)
                /\ Total(extracted, "Taxable Amount", "Taxable") = None =>
                      normalized.value.taxable_total = Some(Round2(C14_Sum(items)))

=============================================================================
